---- MODULE Spec2Model ----
(***************************************************************************)
(* Streaming conversation driver (BaseLLM.streamChatCompletionWrapper),    *)
(* terminal session (BaseLLM.connectStreamService) and tool dispatch       *)
(* (prepareTools / handleToolCalls) of the scrypted llm plugin.            *)
(*                                                                         *)
(* One action is the code between two await points of the driver; the      *)
(* readline 'line' handler may run between any two of them.                *)
(***************************************************************************)
EXTENDS Integers, Sequences, FiniteSets, TLC

\* ------------------------------------------------------------------ bounds

\* non-empty lines the user types in one session
MaxLines == 3
\* tool calls the backend emits in one session (a tool_calls field
\* counts for one call even when it is empty)
MaxToolCalls == 2
\* delta chunks the backend streams before the final message of a request
MaxDeltas == 1
\* message batches an external caller feeds to userMessages (direct use)
MaxBatches == 2

\* ------------------------------------------------------------------ data

\* words generate() may join into a token
Tokens == {"apple-bread", "cloud-drum"}

\* `data:${content.mimeType};base64,${content.data}`
DataUrl(mimeType, data) == "data:" \o mimeType \o ";base64," \o data

\* What may follow the token in a chat:// URL the assistant writes.
UrlPaths == {"", "/"}
ChatUrl(token, path) == "chat://" \o token \o path

\* value.startsWith('chat://')
StartsWithChat(value) ==
    \E t \in Tokens, p \in UrlPaths : value = ChatUrl(t, p)

\* new URL(value).host: the authority of the URL, without the path
UrlHost(value) ==
    CHOOSE t \in Tokens : \E p \in UrlPaths : value = ChatUrl(t, p)

\* value.substring(7): everything after chat://
Substring7(value) ==
    CHOOSE r \in { t \o p : t \in Tokens, p \in UrlPaths } : value = "chat://" \o r

\* JSON values: a string, a number or an object, the latter two kept as
\* their JSON text.  undefined is what a lookup that finds nothing gives.
JsonString(s) == [type |-> "string", value |-> s]
JsonNumber(text) == [type |-> "number", value |-> text]
JsonObject(text) == [type |-> "object", value |-> text]
Undefined == [type |-> "undefined", value |-> ""]

\* if (src)
Truthy(v) ==
    \/ v.type = "object"
    \/ v.type = "string" /\ v.value # ""
    \/ v.type = "number" /\ v.value # "0"

\* The values that occur inside argument objects: chat URLs, plain text,
\* resolved blobs, and the number of the partial arguments.
JsonValues ==
    { JsonString(ChatUrl(t, p)) : t \in Tokens, p \in UrlPaths }
    \cup { JsonString(DataUrl("image/png", "AAAA")), JsonString(DataUrl("audio/wav", "BBBB")) }
    \cup { JsonString("iVBOR"), JsonObject("{\"a\":1}"), JsonNumber("1"), JsonNumber("0") }

\* Argument objects: no key or one key of the tools' parameters.
JsonKeys == {"a", "q", "url", "json"}
JsonObjects == {<<>>} \cup { k :> v : k \in JsonKeys, v \in JsonValues }

\* JSON.stringify of a value and of an argument object (none of the strings
\* here holds a character that needs escaping).
StringifyValue(v) ==
    IF v.type = "string" THEN "\"" \o v.value \o "\"" ELSE v.value

Stringify(obj) ==
    IF DOMAIN obj = {} THEN "{}"
    ELSE LET k == CHOOSE x \in DOMAIN obj : TRUE
         IN "{\"" \o k \o "\":" \o StringifyValue(obj[k]) \o "}"

\* JSON.parse: the object a complete JSON text denotes; it throws on
\* anything else.
JsonParse(text) ==
    IF \E o \in JsonObjects : Stringify(o) = text
    THEN [ok |-> TRUE, value |-> CHOOSE o \in JsonObjects : Stringify(o) = text]
    ELSE [ok |-> FALSE, value |-> <<>>]

\* Raw arguments strings a backend may send.
ArgStrings == {"", "{}", "{\"a\":1", "}"}

\* Arguments that name a blob by its chat:// URL.
ChatArgStrings ==
    { Stringify("url" :> JsonString(ChatUrl("apple-bread", ""))),
      Stringify("url" :> JsonString(ChatUrl("apple-bread", "/"))),
      Stringify("json" :> JsonString(ChatUrl("apple-bread", ""))) }

\* openai's partialParse: repairs a structurally valid prefix and hands it
\* to JSON.parse, which throws when nothing parsable is left.
PartialParse(arguments) ==
    CASE arguments = "{\"a\":1"  -> JsonParse("{\"a\":1}")
      [] OTHER                   -> JsonParse(arguments)

NoCall == <<0, 0>>

\* One line of message text; token is the chat:// token the line quotes.
TextLine(text, token) == [text |-> text, token |-> token]

\* body.messages entries.  id is <<turn, index>>: the assistant turn of an
\* assistant message, the tool_call_id of a tool message.  has_tool_calls
\* tells a missing tool_calls field from an empty array; function_call is
\* absent, null or set.  content is the text, as a list of lines; media
\* holds the data URLs a user message carries inline.
NoFunctionCall == [state |-> "absent", name |-> "", arguments |-> ""]

Msg(role, id, has, tcs, content) ==
    [role |-> role, id |-> id, has_tool_calls |-> has, tool_calls |-> tcs,
     function_call |-> NoFunctionCall, content |-> content, media |-> <<>>]

UserMsg(text) == Msg("user", NoCall, FALSE, <<>>, <<TextLine(text, "")>>)
SystemMsg == Msg("system", NoCall, FALSE, <<>>, <<TextLine("systemPrompt", "")>>)
AssistantMsg(turn, has, tcs) == Msg("assistant", <<turn, 0>>, has, tcs, <<>>)

\* A tool call of an assistant message.
ToolCall(id, type, name, arguments) ==
    [id |-> id, type |-> type, name |-> name, arguments |-> arguments]

\* The shapes of tool call the backend may emit.
ToolCallShapes ==
    { [type |-> "function", name |-> "tool", arguments |-> a] : a \in ArgStrings }
    \cup { [type |-> "function", name |-> "does-not-exist", arguments |-> "{}"],
           [type |-> "function", name |-> "get_time", arguments |-> "{}"],
           [type |-> "custom", name |-> "tool", arguments |-> "{}"] }

RECURSIVE SeqsUpTo(_, _)
SeqsUpTo(S, n) ==
    IF n = 0 THEN {<<>>}
    ELSE LET shorter == SeqsUpTo(S, n - 1)
         IN shorter \cup { Append(s, x) : s \in { t \in shorter : Len(t) = n - 1 }, x \in S }

Last(s) == s[Len(s)]

\* Content parts a tool may return in this model; video stands for any
\* type handleToolCalls does not know.  mutable is the hint a resource may
\* carry in its _meta.
Part(type, mimeType, data) ==
    [type |-> type, mimeType |-> mimeType, data |-> data, mutable |-> ""]
ResourcePart(mimeType, text, mutable) ==
    [type |-> "resource", mimeType |-> mimeType, data |-> text, mutable |-> mutable]
TextPart == Part("text", "", "some text")
ImagePart == Part("image", "image/png", "AAAA")
AudioPart == Part("audio", "audio/wav", "BBBB")
VideoPart == Part("video", "video/mp4", "CCCC")

\* ------------------------------------------------------------------ state

VARIABLES
    opts,              \* how the driver was called (fixed after Init)
    messages,          \* body.messages
    userMessageQueue,  \* batches submitted to userMessages, not yet popped
    sourceDone,        \* the userMessages generator has ended
    toolHistory,       \* toolHistory of connectStreamService
    processing,        \* the processing flag of connectStreamService
    wpc,               \* where streamChatCompletionWrapper is suspended
    cpc,               \* where the consumer loop of connectStreamService is
    stream,            \* the internal stream of the request in flight
    done,              \* the wrapper's local done
    error,             \* the wrapper's local error (TRUE when set)
    pending,           \* callback promises of this stream not yet settled
    cur,               \* locals of the handleToolCalls call in progress
    turns,             \* final assistant messages received so far
    emitted,           \* per turn, the tool calls as the backend sent them
    requests,          \* per request sent, Len(messages) when it was sent
    invoked,           \* provider invocations (callLLMTool), in order
    htc,               \* calls of handleToolCalls so far
    nlines,            \* non-empty lines typed so far
    accepted,          \* of those, the lines the handler queued
    out,               \* the restart notice written to q, the error thrown,
                       \* the sentinels yielded
    userDatabases,     \* LLMPlugin.userDatabases: username -> {token, database}
    https,             \* the HTTP requests received, each with where its
                       \* handler is suspended and the response it sent
    chatCompletions,   \* calls of a ChatCompletion device made by the endpoint
    random             \* draws of Math.random() so far

driverVars == <<messages, wpc, stream, done, error, pending, turns, emitted, requests>>
sessionVars == <<userMessageQueue, sourceDone, processing, nlines, accepted, out>>
dispatchVars == <<cpc, cur, toolHistory, invoked, htc>>
pluginVars == <<userDatabases, https, chatCompletions, random>>
vars == <<opts, driverVars, sessionVars, dispatchVars, pluginVars>>

\* Tool providers (LLMTools): the names getLLMTools declares, and whether
\* the promise of getLLMTools rejects.
ScryptedTools == [id |-> "scrypted", names |-> <<"tool", "get-time">>, rejects |-> FALSE]
AdditionalTools == [id |-> "additional", names |-> <<"get-time", "tool">>, rejects |-> FALSE]
BrokenTools == [id |-> "broken", names |-> <<"broken-tool", "tool">>, rejects |-> TRUE]

\* connectStreamService: userMessages is the queue, no callback, the body
\* starts with the system prompt when one is configured, the tools are
\* those of the terminal tools setting.
TerminalOpts ==
    { [terminal |-> TRUE, userMessages |-> TRUE, callback |-> "undefined",
       continue_final_message |-> FALSE, functionCalls |-> f, image |-> i,
       audio |-> FALSE, systemPrompt |-> s, llmTools |-> <<ScryptedTools>>]
      : f \in BOOLEAN, i \in BOOLEAN, s \in BOOLEAN }

\* streamChatCompletion called by another plugin: any combination of the
\* optional parameters.
DirectOpts ==
    { [terminal |-> FALSE, userMessages |-> u, callback |-> c,
       continue_final_message |-> k, functionCalls |-> FALSE, image |-> FALSE,
       audio |-> FALSE, systemPrompt |-> FALSE, llmTools |-> <<>>]
      : u \in BOOLEAN, c \in {"undefined", "null", "fn"}, k \in BOOLEAN }

\* body.messages a direct caller may start with.
DirectBodies ==
    { <<>>, <<UserMsg("hi")>>, <<UserMsg("hi"), AssistantMsg(0, FALSE, <<>>)>> }

\* batches a direct caller may feed to userMessages.
DirectBatches ==
    { <<UserMsg("more")>>, <<AssistantMsg(0, FALSE, <<>>)>> }

NoToolCall == ToolCall(NoCall, "", "", "")
NoCur == [pos |-> 0, i |-> 0, allMessages |-> <<>>, tc |-> NoToolCall, chatUrls |-> <<>>]
NoStream == [deltas |-> 0, finalSeen |-> FALSE]

\* The state after construction, for the ways of calling in callers.
Constructed(callers) ==
    /\ opts \in callers
    /\ messages \in IF opts.terminal
                     THEN {IF opts.systemPrompt THEN <<SystemMsg>> ELSE <<>>}
                     ELSE DirectBodies
    /\ userMessageQueue = <<>>
    /\ sourceDone = FALSE
    /\ toolHistory = <<>>
    /\ processing = FALSE
    /\ wpc = "ensure"
    /\ cpc = "next"
    /\ stream = NoStream
    /\ done = FALSE
    /\ error = FALSE
    /\ pending = 0
    /\ cur = NoCur
    /\ turns = 0
    /\ emitted = <<>>
    /\ requests = <<>>
    /\ invoked = <<>>
    /\ htc = 0
    /\ nlines = 0
    /\ accepted = 0
    /\ out = [notice |-> "", thrown |-> "", sentinels |-> 0]
    /\ userDatabases = <<>>
    /\ https = <<>>
    /\ chatCompletions = <<>>
    /\ random = 0

Init == Constructed(TerminalOpts \cup DirectOpts)

\* ------------------------------------------------------------------ registry

\* TimeToolFunctionName of time-tool.ts
TimeToolFunctionName == "get-time"

\* name.replace('-', '_'): the first dash becomes an underscore
NoDashName(name) ==
    CASE name = "get-time"    -> "get_time"
      [] name = "broken-tool" -> "broken_tool"
      [] OTHER                -> name

\* tool.function.parameters.properties of the tools a provider declares:
\* "tool" takes two URI parameters, one of them typed by a mime type, and a
\* plain string parameter.
ToolProperties(name) ==
    IF name = "tool"
    THEN << [param |-> "url", type |-> "string", format |-> "uri", mimeType |-> ""],
            [param |-> "json", type |-> "string", format |-> "uri",
             mimeType |-> "application/json"],
            [param |-> "q", type |-> "string", format |-> "", mimeType |-> ""] >>
    ELSE <<>>

\* One entry of toolTuples: the provider and the descriptor it declared.
ToolTuple(llmTools, name) ==
    [llmTools |-> llmTools.id,
     tool |-> [name |-> name, declaredBy |-> llmTools.id,
               properties |-> ToolProperties(name)]]

\* mutant: the entries of a provider are taken whatever became of its listing
ListedAnyway(llmTools) ==
    [j \in 1..Len(llmTools.names) |-> ToolTuple(llmTools, llmTools.names[j])]

\* (await Promise.allSettled(toolsPromises)).map(r => r.status ===
\* 'fulfilled' ? r.value : []): the entries of one provider, none when its
\* listing rejected.
Settled(llmTools) ==
    IF llmTools.rejects THEN <<>>
    ELSE [j \in 1..Len(llmTools.names) |-> ToolTuple(llmTools, llmTools.names[j])]

\* toolTuples: the descriptors of every provider, in provider order (.flat())
RECURSIVE ToolTuples(_, _)
ToolTuples(allLLMTools, k) ==
    IF k > Len(allLLMTools) THEN <<>>
    ELSE Settled(allLLMTools[k]) \o ToolTuples(allLLMTools, k + 1)

NoRegistry == [map |-> <<>>, originalNames |-> <<>>, toolMap |-> <<>>, keys |-> <<>>]

\* One pass of for (const entry of toolTuples): the name loses its dash and
\* the entry overwrites whatever the three maps held under that name.  An
\* object keeps a key at the place where it was first inserted.
Register(acc, entry) ==
    LET noDashName == NoDashName(entry.tool.name) IN
    [map |-> (noDashName :> entry.llmTools) @@ acc.map,
     originalNames |-> (noDashName :> entry.tool.name) @@ acc.originalNames,
     toolMap |-> (noDashName :> [entry.tool EXCEPT !.name = noDashName]) @@ acc.toolMap,
     keys |-> IF noDashName \in DOMAIN acc.map THEN acc.keys
              ELSE Append(acc.keys, noDashName)]

RECURSIVE RegisterAll(_, _, _)
RegisterAll(toolTuples, k, acc) ==
    IF k > Len(toolTuples) THEN acc
    ELSE RegisterAll(toolTuples, k + 1, Register(acc, toolTuples[k]))

\* prepareTools: the name -> provider map, the original names and
\* tools = Object.values(toolMap).
PrepareTools(allLLMTools) ==
    LET r == RegisterAll(ToolTuples(allLLMTools, 1), 1, NoRegistry) IN
    [map |-> r.map,
     originalNames |-> r.originalNames,
     tools |-> [k \in 1..Len(r.keys) |-> r.toolMap[r.keys[k]]]]

\* The names the session's registry knows.
RegisteredTools == DOMAIN PrepareTools(opts.llmTools).map

NoTool == [name |-> "", declaredBy |-> "", properties |-> <<>>]

\* tools.tools.find(t => t.type === 'function' && t.function.name === name)
FindTool(name) ==
    LET tools == PrepareTools(opts.llmTools).tools
        found == { k \in DOMAIN tools : tools[k].name = name }
    IN IF found = {} THEN NoTool
       ELSE tools[CHOOSE k \in found : \A j \in found : k <= j]

\* ------------------------------------------------------------------ blobs

MetaEntry(list, token, src) == [list |-> list, token |-> token, src |-> src]
ResourceEntry(token, text, mimeType) ==
    [list |-> "resources", token |-> token, text |-> text, mimeType |-> mimeType]

IsImage(e) == e.list = "images"
IsAudio(e) == e.list = "audio"
IsResource(e) == e.list = "resources"

\* The entries findChatBlob visits, in the order it visits them: message by
\* message, and in each message images, then audio, then resources.
RECURSIVE ScanOrder(_, _)
ScanOrder(history, k) ==
    IF k > Len(history) THEN <<>>
    ELSE SelectSeq(history[k].meta, IsImage)
         \o SelectSeq(history[k].meta, IsAudio)
         \o SelectSeq(history[k].meta, IsResource)
         \o ScanOrder(history, k + 1)

NotFound == [threw |-> FALSE, value |-> Undefined]

\* What a matching entry gives: the src of an image or audio entry; for a
\* resource the text, parsed when it is application/json and parses, after
\* the check of the required mime type.
EntryValue(e, requiredMimeType) ==
    IF ~IsResource(e) THEN [threw |-> FALSE, value |-> JsonString(e.src)]
    ELSE IF requiredMimeType # "" /\ e.mimeType # requiredMimeType
    THEN [threw |-> TRUE, value |-> Undefined]
    ELSE IF e.mimeType = "application/json" /\ JsonParse(e.text).ok
    THEN [threw |-> FALSE, value |-> JsonObject(e.text)]
    ELSE IF e.mimeType = "application/json" /\ e.text \in {"0", "1"}
    THEN [threw |-> FALSE, value |-> JsonNumber(e.text)]
    ELSE [threw |-> FALSE, value |-> JsonString(e.text)]

\* mutant: the scan keeps the first value it found
ScanEntryFirst(found, e, token, requiredMimeType) ==
    IF found.threw \/ e.token # token \/ found.value # Undefined THEN found
    ELSE EntryValue(e, requiredMimeType)

\* One entry of the scan: a match overwrites mutableValue and the scan goes
\* on; InvalidBlobMimeTypeError ends it.
ScanEntry(found, e, token, requiredMimeType) ==
    IF found.threw \/ e.token # token THEN found
    ELSE EntryValue(e, requiredMimeType)

RECURSIVE Scan(_, _, _, _, _)
Scan(entries, k, token, requiredMimeType, found) ==
    IF k > Len(entries) THEN found
    ELSE Scan(entries, k + 1, token, requiredMimeType,
              ScanEntry(found, entries[k], token, requiredMimeType))

\* findChatBlob(token, history, requiredMimeType)
FindChatBlob(token, history, requiredMimeType) ==
    Scan(ScanOrder(history, 1), 1, token, requiredMimeType, NotFound)

NoRewrite(arguments) == [arguments |-> arguments, chatUrls |-> <<>>]

\* mutant: every declared parameter counts as a URI parameter
IsAnyParam(schemaValue) == TRUE

\* schemaValue.type === 'string' && schemaValue.format === 'uri'
IsUriParam(schemaValue) == schemaValue.type = "string" /\ schemaValue.format = "uri"

\* for (const [param, paramType] of Object.entries(properties)): a string
\* argument of a URI parameter that starts with chat:// is looked up by the
\* host of the URL; a value that is found replaces it, the arguments are
\* serialized again and chatUrls remembers what followed chat://.  An error
\* of the lookup ends the loop in the empty catch.
RECURSIVE RewriteParams(_, _, _, _, _)
RewriteParams(properties, k, parsed, history, st) ==
    IF k > Len(properties) THEN st
    ELSE LET p == properties[k] IN
         IF \/ p.param \notin DOMAIN parsed
            \/ parsed[p.param].type # "string"
            \/ ~IsUriParam(p)
            \/ ~StartsWithChat(parsed[p.param].value)
         THEN RewriteParams(properties, k + 1, parsed, history, st)
         ELSE LET value == parsed[p.param].value
                  src == FindChatBlob(UrlHost(value), history, p.mimeType)
                  rewritten == [parsed EXCEPT ![p.param] = src.value]
              IN IF src.threw THEN st
                 ELSE IF ~Truthy(src.value)
                 THEN RewriteParams(properties, k + 1, parsed, history, st)
                 ELSE RewriteParams(properties, k + 1, rewritten, history,
                        [arguments |-> Stringify(rewritten),
                         chatUrls |-> (p.param :> Substring7(value)) @@ st.chatUrls])

\* The try block of handleToolCalls that rewrites the copy of the call.
RewriteArguments(tc, tool, history) ==
    IF tool = NoTool \/ tc.arguments = "" \/ ~PartialParse(tc.arguments).ok
    THEN NoRewrite(tc.arguments)
    ELSE RewriteParams(tool.properties, 1, PartialParse(tc.arguments).value, history,
                       NoRewrite(tc.arguments))

\* ------------------------------------------------------------------ adapter

FunctionCall(name, arguments) == [state |-> "set", name |-> name, arguments |-> arguments]
NullFunctionCall == [state |-> "null", name |-> "", arguments |-> ""]

ToolMsg(id, lines) == Msg("tool", id, FALSE, <<>>, lines)
OkMsg == Msg("assistant", NoCall, FALSE, <<>>, <<TextLine("Ok.", "")>>)
MediaUserMsg(text, token, media) ==
    [Msg("user", NoCall, FALSE, <<>>, <<TextLine(text, token)>>) EXCEPT !.media = media]

NoAdapt == [ok |-> TRUE, lines |-> <<>>, extra |-> <<>>, meta |-> <<>>, minted |-> <<>>]

\* The parameter a resource's mutable hint names was rewritten from a chat
\* URL in this call: chatUrls.get(property[0]) is set.
ReusesToken(c, tool, chatUrls) ==
    /\ c.type = "resource"
    /\ c.mutable # ""
    /\ \E k \in DOMAIN tool.properties : tool.properties[k].param = c.mutable
    /\ c.mutable \in DOMAIN chatUrls

\* token = chatUrls.get(property[0]); token ||= generate()
ResourceToken(c, tool, chatUrls, token) ==
    IF ReusesToken(c, tool, chatUrls) THEN chatUrls[c.mutable] ELSE token

\* mutant: the user message that follows "Ok." is left out
AdaptAudioUnanswered(c, token, acc) ==
    [acc EXCEPT
        !.lines = Append(@, TextLine("The next user message will include the audio.", "")),
        !.extra = @ \o <<OkMsg>>,
        !.meta = Append(@, MetaEntry("audio", token, DataUrl(c.mimeType, c.data)))]

\* An audio part for a client with the audio capability: the user message
\* quotes a chat:// URL and the audio is stored under its token.
AdaptAudio(c, token, acc) ==
    [acc EXCEPT
        !.lines = Append(@, TextLine("The next user message will include the audio.", "")),
        !.extra = @ \o <<OkMsg, MediaUserMsg("Audio file is available at", token, <<>>)>>,
        !.meta = Append(@, MetaEntry("audio", token, DataUrl(c.mimeType, c.data)))]

\* mutant: an image is always stored behind a token
AdaptImageByToken(c, caps, token, acc) ==
    [acc EXCEPT
        !.lines = Append(@, TextLine("The image was presented to the user.", token)),
        !.meta = Append(@, MetaEntry("images", token, DataUrl(c.mimeType, c.data)))]

\* An image part: inline in a user message when the client takes images,
\* behind a token otherwise.
AdaptImage(c, caps, token, acc) ==
    IF caps.image
    THEN [acc EXCEPT
            !.lines = Append(@, TextLine("The next user message will include the image.", "")),
            !.extra = @ \o <<OkMsg, MediaUserMsg("Image file from tool call id", "",
                                                 <<DataUrl(c.mimeType, c.data)>>)>>]
    ELSE [acc EXCEPT
            !.lines = Append(@, TextLine("The image was presented to the user.", token)),
            !.meta = Append(@, MetaEntry("images", token, DataUrl(c.mimeType, c.data)))]

\* One pass of the loop over response.content in handleToolCalls.
AdaptPart(c, tcId, tool, chatUrls, caps, token, acc0) ==
    LET url == DataUrl(c.mimeType, c.data)
        acc == [acc0 EXCEPT !.minted = IF token = "" THEN @ ELSE Append(@, token)]
    IN
    CASE c.type = "image" -> AdaptImage(c, caps, token, acc)
      [] c.type = "audio" /\ caps.audio -> AdaptAudio(c, token, acc)
      [] c.type = "audio" /\ ~caps.audio ->
            [acc EXCEPT
                !.lines = Append(@, TextLine("The audio was presented to the user.", token)),
                !.meta = Append(@, MetaEntry("audio", token, url))]
      [] c.type = "text" ->
            [acc EXCEPT !.lines = Append(@, TextLine(c.data, ""))]
      [] c.type = "resource" ->
            LET t == ResourceToken(c, tool, chatUrls, token) IN
            [acc EXCEPT
                !.lines = Append(@, TextLine("The tool resource was returned.", t)),
                !.meta = Append(@, ResourceEntry(t, c.data, c.mimeType))]
      [] OTHER ->
            [acc EXCEPT !.ok = FALSE]

\* The loop over response.content; it stops at the part that throws.
RECURSIVE AdaptContent(_, _, _, _, _, _, _, _)
AdaptContent(content, k, tcId, tool, chatUrls, caps, toks, acc) ==
    IF k > Len(content) \/ ~acc.ok THEN acc
    ELSE AdaptContent(content, k + 1, tcId, tool, chatUrls, caps, toks,
                      AdaptPart(content[k], tcId, tool, chatUrls, caps, toks[k], acc))

\* The ToolCallData handleToolCalls builds for one call and its response;
\* minted lists the tokens generate() returned for it.
ToolCallData(tc, tool, chatUrls, response, caps, toks) ==
    LET a == AdaptContent(response.content, 1, tc.id, tool, chatUrls, caps, toks, NoAdapt) IN
    [ok |-> a.ok,
     toolCall |-> tc,
     minted |-> a.minted,
     callToolResult |-> [content |-> response.content, meta |-> response.meta \o a.meta],
     messages |-> <<ToolMsg(tc.id, a.lines)>> \o a.extra]

\* ------------------------------------------------------------------ driver

Capabilities == [image |-> opts.image, audio |-> opts.audio]

\* mutant: only an assistant message blocks the request
LastIsNotAssistant ==
    messages = <<>> \/ Last(messages).role # "assistant"

LastIsUserOrTool ==
    /\ messages # <<>>
    /\ Last(messages).role \in {"user", "tool"}

\* mutant: the consumer loop ends without writing the notice
ThrowsUnseen(e) ==
    /\ wpc' = IF opts.terminal THEN "closed" ELSE "threw"
    /\ cpc' = IF opts.terminal THEN "dead" ELSE cpc
    /\ out' = [out EXCEPT !.thrown = e]

\* An error leaves streamChatCompletionWrapper or handleToolCalls.  In the
\* terminal session the consumer loop catches it, writes the notice
\* `Chat error (restarting): ${e}` and returns.
Throws(e) ==
    /\ wpc' = IF opts.terminal THEN "closed" ELSE "threw"
    /\ cpc' = IF opts.terminal THEN "dead" ELSE cpc
    /\ out' = [out EXCEPT !.thrown = e, !.notice = IF opts.terminal THEN e ELSE @]

\* ensureLastMessageIsUserOrToolMessage breaks and the request is sent:
\* for await (... of this.streamChatCompletionInternal(body)).
SendRequest ==
    /\ wpc = "ensure"
    /\ LastIsUserOrTool
    /\ requests' = Append(requests, Len(messages))
    /\ wpc' = "streaming"
    /\ stream' = NoStream
    /\ done' = FALSE
    /\ error' = FALSE
    /\ pending' = 0
    /\ UNCHANGED <<opts, pluginVars, messages, turns, emitted, sessionVars, dispatchVars>>

\* mutant: without a message source the request is sent all the same
EnsureGoesOn ==
    /\ wpc = "ensure"
    /\ ~LastIsUserOrTool
    /\ ~opts.userMessages
    /\ requests' = Append(requests, Len(messages))
    /\ wpc' = "streaming"
    /\ UNCHANGED <<opts, pluginVars, messages, stream, done, error, pending, turns, emitted,
                   sessionVars, dispatchVars>>

\* if (!userMessages) throw new Error('Last message must not be from the assistant.')
EnsureThrows ==
    /\ wpc = "ensure"
    /\ ~LastIsUserOrTool
    /\ ~opts.userMessages
    /\ Throws("Last message must not be from the assistant.")
    /\ UNCHANGED <<opts, pluginVars, messages, stream, done, error, pending, turns, emitted, requests,
                   userMessageQueue, sourceDone, processing, nlines, accepted,
                   cur, toolHistory, invoked, htc>>

\* if (!body.continue_final_message) await userMessages.next()
EnsureAwaits ==
    /\ wpc = "ensure"
    /\ ~LastIsUserOrTool
    /\ opts.userMessages
    /\ ~opts.continue_final_message
    /\ wpc' = "awaitUser"
    /\ UNCHANGED <<opts, pluginVars, messages, stream, done, error, pending, turns, emitted, requests,
                   sessionVars, dispatchVars>>

\* with continue_final_message the while (true) goes round without awaiting
EnsureSpins ==
    /\ wpc \in {"ensure", "spin"}
    /\ ~LastIsUserOrTool
    /\ opts.userMessages
    /\ opts.continue_final_message
    /\ wpc' = "spin"
    /\ UNCHANGED <<opts, pluginVars, messages, stream, done, error, pending, turns, emitted, requests,
                   sessionVars, dispatchVars>>

\* userMessages.next() yields a batch: body.messages.push(...userMessage.value).
\* In ensure the loop goes round; after an aborted stream the for await is
\* left and ensure runs.
UserMessagesNext ==
    /\ wpc \in {"awaitUser", "awaitReplacement"}
    /\ userMessageQueue # <<>>
    /\ messages' = messages \o Head(userMessageQueue)
    /\ userMessageQueue' = Tail(userMessageQueue)
    /\ wpc' = "ensure"
    /\ UNCHANGED <<opts, pluginVars, stream, done, error, pending, turns, emitted, requests,
                   sourceDone, processing, nlines, accepted, out, dispatchVars>>

\* userMessage.done: 'No user message provided for last message.' /
\* 'No assistant message provided for aborted message.'
UserMessagesEnded ==
    /\ wpc \in {"awaitUser", "awaitReplacement"}
    /\ userMessageQueue = <<>>
    /\ sourceDone
    /\ Throws(IF wpc = "awaitUser" THEN "No user message provided for last message."
              ELSE "No assistant message provided for aborted message.")
    /\ UNCHANGED <<opts, pluginVars, messages, stream, done, error, pending, turns, emitted, requests,
                   userMessageQueue, sourceDone, processing, nlines, accepted,
                   cur, toolHistory, invoked, htc>>

\* ------------------------------------------------------------------ stream

\* What an assistant message takes from the session's MaxToolCalls.
CallBudget(has_tool_calls, n) ==
    IF ~has_tool_calls THEN 0 ELSE IF n = 0 THEN 1 ELSE n

RECURSIVE BudgetUsed(_)
BudgetUsed(t) ==
    IF t = 0 THEN 0
    ELSE BudgetUsed(t - 1) + CallBudget(emitted[t].has_tool_calls, Len(emitted[t].calls))

\* The tool_calls fields a final assistant message may carry: none, or up
\* to MaxToolCalls calls.
FinalToolCalls ==
    { [has_tool_calls |-> FALSE, shapes |-> <<>>] }
    \cup { [has_tool_calls |-> TRUE, shapes |-> q] : q \in SeqsUpTo(ToolCallShapes, MaxToolCalls) }

\* mutant: the arguments are left as the backend sent them
RECURSIVE NormalizeNothing(_, _)
NormalizeNothing(tcs, k) ==
    IF k > Len(tcs) THEN [threw |-> FALSE, calls |-> tcs]
    ELSE IF tcs[k].type = "custom" THEN [threw |-> TRUE, calls |-> tcs]
    ELSE NormalizeNothing(tcs, k + 1)

\* for (const tc of message.choices[0].message.tool_calls || []): a custom
\* call throws, an empty arguments string becomes '{}'.  The calls before the
\* custom one are already rewritten when it throws.
RECURSIVE NormalizeToolCalls(_, _)
NormalizeToolCalls(tcs, k) ==
    IF k > Len(tcs) THEN [threw |-> FALSE, calls |-> tcs]
    ELSE IF tcs[k].type = "custom" THEN [threw |-> TRUE, calls |-> tcs]
    ELSE NormalizeToolCalls(
            [tcs EXCEPT ![k].arguments = IF @ = "" THEN "{}" ELSE @], k + 1)

\* A chunk arrives after the callback asked to stop: the wrapper yields
\* undefined and, with a message source, awaits the replacement batch.
ChunkWhenDone ==
    /\ wpc = "streaming"
    /\ ~stream.finalSeen
    /\ done
    /\ out' = [out EXCEPT !.sentinels = @ + 1]
    /\ wpc' = IF opts.userMessages THEN "awaitReplacement" ELSE "returned"
    /\ pending' = 0
    /\ UNCHANGED <<opts, pluginVars, messages, stream, done, error, turns, emitted, requests,
                   userMessageQueue, sourceDone, processing, nlines, accepted, dispatchVars>>

\* if (error) throw error, at the chunk that follows the rejected callback.
ChunkWhenError ==
    /\ wpc = "streaming"
    /\ ~stream.finalSeen
    /\ ~done
    /\ error
    /\ Throws("callback rejected")
    /\ UNCHANGED <<opts, pluginVars, messages, stream, done, error, pending, turns, emitted, requests,
                   userMessageQueue, sourceDone, processing, nlines, accepted,
                   cur, toolHistory, invoked, htc>>

\* A delta chunk: handed to the callback (not awaited), yielded, or dropped.
BackendDelta ==
    /\ wpc = "streaming"
    /\ ~stream.finalSeen
    /\ ~done
    /\ ~error
    /\ stream.deltas < MaxDeltas
    /\ stream' = [stream EXCEPT !.deltas = @ + 1]
    /\ pending' = IF opts.callback = "fn" THEN pending + 1 ELSE pending
    /\ UNCHANGED <<opts, pluginVars, messages, wpc, done, error, turns, emitted, requests,
                   sessionVars, dispatchVars>>

\* callback(message).then(more => done = !more)
CallbackResolves(more) ==
    /\ wpc = "streaming"
    /\ pending > 0
    /\ pending' = pending - 1
    /\ done' = ~more
    /\ UNCHANGED <<opts, pluginVars, messages, wpc, stream, error, turns, emitted, requests,
                   sessionVars, dispatchVars>>

\* .catch(e => error = e)
CallbackRejects ==
    /\ wpc = "streaming"
    /\ pending > 0
    /\ pending' = pending - 1
    /\ error' = TRUE
    /\ UNCHANGED <<opts, pluginVars, messages, wpc, stream, done, turns, emitted, requests,
                   sessionVars, dispatchVars>>

\* mutant: the turn ends only on a message that has text
EndsTurnOnText(message) == ~message.has_tool_calls /\ message.content # <<>>

\* if (!message.tool_calls): the consumer ends the turn.
EndsTurn(message) == ~message.has_tool_calls

\* The final aggregated message: pushed, normalized, yielded.  The terminal
\* consumer ends the turn when it has no tool_calls field and calls
\* handleToolCalls otherwise; a direct caller just takes it.
BackendFinal(f) ==
    LET turn == turns + 1
        tcs == [k \in 1..Len(f.shapes) |->
                  ToolCall(<<turn, k>>, f.shapes[k].type, f.shapes[k].name, f.shapes[k].arguments)]
        norm == NormalizeToolCalls(tcs, 1)
    IN
    /\ wpc = "streaming"
    /\ ~stream.finalSeen
    /\ ~done
    /\ ~error
    /\ BudgetUsed(turns) + CallBudget(f.has_tool_calls, Len(f.shapes)) <= MaxToolCalls
    /\ turns' = turn
    /\ emitted' = Append(emitted, [has_tool_calls |-> f.has_tool_calls, calls |-> tcs])
    /\ messages' = Append(messages, AssistantMsg(turn, f.has_tool_calls, norm.calls))
    /\ stream' = [stream EXCEPT !.finalSeen = TRUE]
    /\ IF norm.threw
         THEN /\ Throws("Custom tool calls are not supported.")
              /\ UNCHANGED <<processing, cur, htc>>
         ELSE IF ~opts.terminal
         THEN UNCHANGED <<wpc, cpc, out, processing, cur, htc>>
         ELSE IF EndsTurn(Last(messages'))
         THEN /\ processing' = FALSE
              /\ UNCHANGED <<wpc, cpc, out, cur, htc>>
         ELSE /\ wpc' = "yielded"
              /\ cpc' = "dispatch"
              /\ cur' = [NoCur EXCEPT !.pos = Len(messages) + 1, !.i = 1]
              /\ htc' = htc + 1
              /\ UNCHANGED <<out, processing>>
    /\ UNCHANGED <<opts, pluginVars, done, error, pending, requests,
                   userMessageQueue, sourceDone, nlines, accepted, toolHistory, invoked>>

\* The internal stream ends after its final message.
BackendEnd ==
    /\ wpc = "streaming"
    /\ stream.finalSeen
    /\ wpc' = IF opts.userMessages THEN "ensure" ELSE "returned"
    /\ pending' = 0
    /\ UNCHANGED <<opts, pluginVars, messages, stream, done, error, turns, emitted, requests,
                   sessionVars, dispatchVars>>

\* The internal stream throws (network, backend error).
BackendError ==
    /\ wpc = "streaming"
    /\ ~stream.finalSeen
    /\ Throws("backend error")
    /\ UNCHANGED <<opts, pluginVars, messages, stream, done, error, pending, turns, emitted, requests,
                   userMessageQueue, sourceDone, processing, nlines, accepted,
                   cur, toolHistory, invoked, htc>>

\* ------------------------------------------------------------------ dispatch

\* What tool providers return in a session.
SessionContents == { <<TextPart>>, <<ImagePart>>, <<VideoPart>> }

\* generate() is called for the parts that mint a token.
MintsToken(c, caps, tool, chatUrls) ==
    \/ c.type = "image" /\ ~caps.image
    \/ c.type = "audio"
    \/ c.type = "resource" /\ ~ReusesToken(c, tool, chatUrls)

TokenChoices(content, caps, tool, chatUrls) ==
    { t \in [1..Len(content) -> Tokens \cup {""}] :
        \A k \in 1..Len(content) :
            (t[k] # "") <=> MintsToken(content[k], caps, tool, chatUrls) }

\* mutant: once function_call is set, the calls are read from it
CurrentCallsMirrored ==
    LET m == messages[cur.pos] IN
    IF m.function_call.state # "set" THEN m.tool_calls
    ELSE [k \in DOMAIN m.tool_calls |->
            [m.tool_calls[k] EXCEPT !.name = m.function_call.name,
                                    !.arguments = m.function_call.arguments]]

\* message.tool_calls of the message handleToolCalls is working on
CurrentCalls == messages[cur.pos].tool_calls

\* tools.toolCall(tc) up to the provider: an unknown name throws, the time
\* tool answers with a string, the arguments go through partialParse.
ToolCallStep(tc) ==
    IF tc.name \notin RegisteredTools THEN "Tool [object Object] not found."
    ELSE IF PrepareTools(opts.llmTools).originalNames[tc.name] = TimeToolFunctionName
    THEN "response.content is not iterable"
    ELSE IF ~PartialParse(tc.arguments).ok THEN "SyntaxError"
    ELSE "provider"

\* mutant: tc is the stored call itself, not a copy
StoredAliased(call, tc) == tc

\* let tc = JSON.parse(JSON.stringify(_tc)): what the call stored in the
\* message is after the copy tc had its arguments rewritten
StoredCall(call, tc) == call

\* mutant: the provider's promise is not awaited, the next call is started
\* while the last one is in flight
DispatchUnawaited ==
    LET i == IF cpc = "toolInFlight" THEN cur.i + 1 ELSE cur.i
        tools == PrepareTools(opts.llmTools)
    IN
    /\ cpc \in {"dispatch", "toolInFlight"}
    /\ i <= Len(CurrentCalls)
    /\ ToolCallStep(CurrentCalls[i]) = "provider"
    /\ invoked' = Append(invoked,
          [id |-> CurrentCalls[i].id, llmTools |-> tools.map[CurrentCalls[i].name],
           name |-> tools.originalNames[CurrentCalls[i].name],
           arguments |-> PartialParse(CurrentCalls[i].arguments).value])
    /\ cur' = [cur EXCEPT !.i = i, !.tc = CurrentCalls[i]]
    /\ cpc' = "toolInFlight"
    /\ UNCHANGED <<opts, pluginVars, messages, stream, done, error, pending, turns, emitted, requests,
                   userMessageQueue, sourceDone, processing, nlines, accepted,
                   toolHistory, htc, wpc, out>>

\* One pass of for (const _tc of message.tool_calls) up to the await of the
\* provider: the copy of the call has its chat:// arguments rewritten and
\* goes to tools.toolCall, which hands the provider of the map the original
\* name and the parsed arguments.  The string of the time tool has no
\* content to iterate, so the loop over response.content throws.
DispatchToolCall ==
    LET call == CurrentCalls[cur.i]
        rewrite == RewriteArguments(call, FindTool(call.name), toolHistory)
        tc == [call EXCEPT !.arguments = rewrite.arguments]
        step == ToolCallStep(tc)
        tools == PrepareTools(opts.llmTools)
    IN
    /\ cpc = "dispatch"
    /\ cur.i <= Len(CurrentCalls)
    /\ messages' = [messages EXCEPT ![cur.pos].tool_calls[cur.i] = StoredCall(call, tc)]
    /\ IF step = "provider"
         THEN /\ invoked' = Append(invoked,
                    [id |-> tc.id, llmTools |-> tools.map[tc.name],
                     name |-> tools.originalNames[tc.name],
                     arguments |-> PartialParse(tc.arguments).value])
              /\ cur' = [cur EXCEPT !.tc = tc, !.chatUrls = rewrite.chatUrls]
              /\ cpc' = "toolInFlight"
              /\ UNCHANGED <<wpc, out>>
         ELSE /\ Throws(step)
              /\ UNCHANGED <<invoked, cur>>
    /\ UNCHANGED <<opts, pluginVars, stream, done, error, pending, turns, emitted, requests,
                   userMessageQueue, sourceDone, processing, nlines, accepted,
                   toolHistory, htc>>

\* callLLMTool resolves: the response is turned into messages; an unknown
\* content type throws.  In legacy mode the call is mirrored into
\* message.function_call.
ToolReturns(content, toks) ==
    LET tc == cur.tc
        d == ToolCallData(tc, FindTool(tc.name), cur.chatUrls,
                          [content |-> content, meta |-> <<>>], Capabilities, toks)
    IN
    /\ cpc = "toolInFlight"
    /\ IF d.ok
         THEN /\ cur' = [cur EXCEPT !.allMessages = Append(@, d), !.i = @ + 1,
                                    !.tc = NoToolCall, !.chatUrls = <<>>]
              /\ cpc' = "dispatch"
              /\ messages' = IF opts.functionCalls
                               THEN [messages EXCEPT ![cur.pos].function_call =
                                        FunctionCall(tc.name, tc.arguments)]
                               ELSE messages
              /\ UNCHANGED <<wpc, out>>
         ELSE /\ Throws("Unsupported content type in tool call response.")
              /\ UNCHANGED <<cur, messages>>
    /\ UNCHANGED <<opts, pluginVars, stream, done, error, pending, turns, emitted, requests,
                   userMessageQueue, sourceDone, processing, nlines, accepted,
                   toolHistory, invoked, htc>>

\* callLLMTool rejects: nothing catches it before the consumer loop.
ToolThrows ==
    /\ cpc = "toolInFlight"
    /\ Throws("provider error")
    /\ UNCHANGED <<opts, pluginVars, messages, stream, done, error, pending, turns, emitted, requests,
                   userMessageQueue, sourceDone, processing, nlines, accepted,
                   cur, toolHistory, invoked, htc>>

\* toolHistory.push(callToolResult) of each ToolCallData, in order
HistoryOf(allMessages) == [k \in 1..Len(allMessages) |-> allMessages[k].callToolResult]

\* mutant: the batches are submitted last call first
BatchesOfReversed(allMessages) ==
    [k \in 1..Len(allMessages) |-> allMessages[Len(allMessages) + 1 - k].messages]

\* userMessageQueue.submit(toolMessage.messages) of each ToolCallData, in order
BatchesOf(allMessages) == [k \in 1..Len(allMessages) |-> allMessages[k].messages]

\* handleToolCalls returns: tool_calls is deleted in legacy mode and
\* function_call is set to null; the consumer pushes every result to
\* toolHistory, submits every batch and asks the wrapper for the next value.
FinishToolCalls ==
    /\ cpc = "dispatch"
    /\ cur.i > Len(CurrentCalls)
    /\ messages' = [messages EXCEPT
                      ![cur.pos].has_tool_calls = IF opts.functionCalls THEN FALSE ELSE @,
                      ![cur.pos].tool_calls = IF opts.functionCalls THEN <<>> ELSE @,
                      ![cur.pos].function_call = NullFunctionCall]
    /\ toolHistory' = toolHistory \o HistoryOf(cur.allMessages)
    /\ userMessageQueue' = userMessageQueue \o BatchesOf(cur.allMessages)
    /\ cur' = NoCur
    /\ cpc' = "next"
    /\ wpc' = "streaming"
    /\ UNCHANGED <<opts, pluginVars, stream, done, error, pending, turns, emitted, requests,
                   sourceDone, processing, nlines, accepted, out, invoked, htc>>

\* ------------------------------------------------------------------ input

\* rl.on('line'): an empty line only prompts; a line typed while processing
\* is dropped; otherwise the flag is set and the line is queued.
Line(line) ==
    /\ opts.terminal
    /\ IF line = ""
         THEN UNCHANGED <<nlines, processing, userMessageQueue, accepted>>
         ELSE /\ nlines < MaxLines
              /\ nlines' = nlines + 1
              /\ IF processing
                   THEN UNCHANGED <<processing, userMessageQueue, accepted>>
                   ELSE /\ processing' = TRUE
                        /\ userMessageQueue' = Append(userMessageQueue, <<UserMsg(line)>>)
                        /\ accepted' = accepted + 1
    /\ UNCHANGED <<opts, pluginVars, driverVars, dispatchVars, sourceDone, out>>

CallerActive ==
    /\ ~opts.terminal
    /\ opts.userMessages
    /\ ~sourceDone
    /\ wpc \notin {"spin", "threw", "returned"}

\* A direct caller's userMessages generator yields a batch.
CallerSubmits(batch) ==
    /\ CallerActive
    /\ accepted < MaxBatches
    /\ userMessageQueue' = Append(userMessageQueue, batch)
    /\ accepted' = accepted + 1
    /\ UNCHANGED <<opts, pluginVars, driverVars, dispatchVars, sourceDone, processing, nlines, out>>

\* A direct caller's userMessages generator ends.
CallerEnds ==
    /\ CallerActive
    /\ sourceDone' = TRUE
    /\ UNCHANGED <<opts, pluginVars, driverVars, dispatchVars, userMessageQueue, processing, nlines,
                   accepted, out>>

\* ------------------------------------------------------------------ spec

Next ==
    \/ SendRequest
    \/ EnsureThrows
    \/ EnsureAwaits
    \/ EnsureSpins
    \/ UserMessagesNext
    \/ UserMessagesEnded
    \/ ChunkWhenDone
    \/ ChunkWhenError
    \/ BackendDelta
    \/ \E more \in BOOLEAN : CallbackResolves(more)
    \/ CallbackRejects
    \/ \E f \in FinalToolCalls : BackendFinal(f)
    \/ BackendEnd
    \/ BackendError
    \/ DispatchToolCall
    \/ \E content \in SessionContents :
         \E toks \in TokenChoices(content, Capabilities, FindTool(cur.tc.name), cur.chatUrls) :
            ToolReturns(content, toks)
    \/ ToolThrows
    \/ FinishToolCalls
    \/ \E line \in {"", "status"} : Line(line)
    \/ \E batch \in DirectBatches : CallerSubmits(batch)
    \/ CallerEnds

Spec == Init /\ [][Next]_vars

\* ------------------------------------------------------------------ blob session
\* The same terminal session with a backend that only answers with tool
\* calls, some of which name blobs by chat:// URL, with tools that also
\* return audio and resources, with every capability setting and with one
\* or two providers that declare the same tools.

BlobOpts ==
    { [terminal |-> TRUE, userMessages |-> TRUE, callback |-> "undefined",
       continue_final_message |-> FALSE, functionCalls |-> FALSE, image |-> i,
       audio |-> a, systemPrompt |-> FALSE, llmTools |-> l]
      : i \in BOOLEAN, a \in BOOLEAN,
        l \in { <<ScryptedTools>>, <<ScryptedTools, AdditionalTools>> } }

BlobCallShapes ==
    { [type |-> "function", name |-> "tool", arguments |-> a]
        : a \in {"{}"} \cup ChatArgStrings }
    \cup { [type |-> "function", name |-> "get_time", arguments |-> "{}"] }

BlobFinalToolCalls ==
    { [has_tool_calls |-> TRUE, shapes |-> q]
        : q \in SeqsUpTo(BlobCallShapes, MaxToolCalls) \ {<<>>} }

BlobContents ==
    { <<TextPart>>, <<ImagePart>>, <<AudioPart>>,
      <<ResourcePart("application/json", "{\"a\":1}", "url")>>,
      <<ResourcePart("image/png", "iVBOR", "")>> }

BlobInit == Constructed(BlobOpts)

BlobNext ==
    \/ Line("status")
    \/ EnsureAwaits
    \/ UserMessagesNext
    \/ SendRequest
    \/ \E f \in BlobFinalToolCalls : BackendFinal(f)
    \/ BackendEnd
    \/ DispatchToolCall
    \/ \E content \in BlobContents :
         \E toks \in TokenChoices(content, Capabilities, FindTool(cur.tc.name), cur.chatUrls) :
            ToolReturns(content, toks)
    \/ ToolThrows
    \/ FinishToolCalls

BlobSpec == BlobInit /\ [][BlobNext]_vars

\* ------------------------------------------------------------------ parts session
\* Terminal sessions whose tools answer with several parts and with
\* resources that hold an empty text or the JSON number 0, and whose backend
\* names blobs by chat:// URL.

PartsOpts ==
    { [terminal |-> TRUE, userMessages |-> TRUE, callback |-> "undefined",
       continue_final_message |-> FALSE, functionCalls |-> FALSE, image |-> i,
       audio |-> a, systemPrompt |-> FALSE, llmTools |-> <<ScryptedTools>>]
      : i \in BOOLEAN, a \in BOOLEAN }

PartsCallShapes ==
    { [type |-> "function", name |-> "tool", arguments |-> a]
        : a \in { "{}", Stringify("url" :> JsonString(ChatUrl("apple-bread", ""))),
                  Stringify("q" :> JsonString(ChatUrl("apple-bread", ""))),
                  Stringify("a" :> JsonString(ChatUrl("apple-bread", ""))) } }

PartsFinalToolCalls ==
    { [has_tool_calls |-> TRUE, shapes |-> q]
        : q \in SeqsUpTo(PartsCallShapes, MaxToolCalls) \ {<<>>} }

PartsContents ==
    { <<ImagePart, ImagePart>>, <<TextPart, ImagePart>>, <<AudioPart, ImagePart>>,
      <<ResourcePart("application/json", "{\"a\":1}", "")>>,
      <<ResourcePart("application/json", "0", "")>>,
      <<ResourcePart("text/plain", "", "")>> }

PartsInit == Constructed(PartsOpts)

PartsNext ==
    \/ Line("status")
    \/ EnsureAwaits
    \/ UserMessagesNext
    \/ SendRequest
    \/ \E f \in PartsFinalToolCalls : BackendFinal(f)
    \/ BackendEnd
    \/ DispatchToolCall
    \/ \E content \in PartsContents :
         \E toks \in TokenChoices(content, Capabilities, FindTool(cur.tc.name), cur.chatUrls) :
            ToolReturns(content, toks)
    \/ ToolThrows
    \/ FinishToolCalls

PartsSpec == PartsInit /\ [][PartsNext]_vars

\* ------------------------------------------------------------------ registry session
\* Terminal sessions over every list of up to MaxProviders providers, one of
\* which fails to list its tools, with a backend that calls the tools by
\* name and tools that answer with text.

MaxProviders == 2

RegistryOpts ==
    { [terminal |-> TRUE, userMessages |-> TRUE, callback |-> "undefined",
       continue_final_message |-> FALSE, functionCalls |-> FALSE, image |-> FALSE,
       audio |-> FALSE, systemPrompt |-> FALSE, llmTools |-> l]
      : l \in SeqsUpTo({ScryptedTools, AdditionalTools, BrokenTools}, MaxProviders) }

RegistryCallShapes ==
    { [type |-> "function", name |-> n, arguments |-> "{}"]
        : n \in {"tool", "get_time", "broken_tool"} }

RegistryFinalToolCalls ==
    { [has_tool_calls |-> TRUE, shapes |-> q]
        : q \in SeqsUpTo(RegistryCallShapes, MaxToolCalls) \ {<<>>} }

RegistryInit == Constructed(RegistryOpts)

RegistryNext ==
    \/ Line("status")
    \/ EnsureAwaits
    \/ UserMessagesNext
    \/ SendRequest
    \/ \E f \in RegistryFinalToolCalls : BackendFinal(f)
    \/ BackendEnd
    \/ DispatchToolCall
    \/ \E toks \in TokenChoices(<<TextPart>>, Capabilities, FindTool(cur.tc.name), cur.chatUrls) :
         ToolReturns(<<TextPart>>, toks)
    \/ ToolThrows
    \/ FinishToolCalls

RegistrySpec == RegistryInit /\ [][RegistryNext]_vars

\* ------------------------------------------------------------------ http endpoint
\* LLMPlugin.onRequest: the token endpoint and the OpenAI-compatible chat
\* completions endpoint, with up to MaxRequests requests whose handlers
\* interleave at their awaits.

MaxRequests == 3

\* request.username is undefined
NoUser == ""

\* Who sends a request: nobody the host authenticated, a user without an
\* ACL, a user with one.
Principals ==
    { [username |-> NoUser, aclId |-> ""],
      [username |-> "admin", aclId |-> ""],
      [username |-> "guest", aclId |-> "guest-acl"] }

TokenUrl == "/endpoint/@scrypted/llm/token"
ChatCompletionsUrl == "/endpoint/@scrypted/llm/api/openai/v1/chat/completions"
OtherUrl == "/endpoint/@scrypted/llm/public"

\* chatCompletion.interfaces.includes(ScryptedInterface.ChatCompletion): the
\* devices of the host are two chat models and a camera.
IsChatCompletion(model) == model \in {"llm", "llm-private"}

\* checkUserId(model, request.aclId) of the host's sdk: the ACL of the
\* guest grants one of the chat models.
CheckUserId(model, aclId) == <<aclId, model>> \in {<<"guest-acl", "llm">>}

NoBody == [model |-> "", stream |-> FALSE]

\* JSON.parse(request.body): the model and the stream flag
Bodies ==
    { [model |-> "llm", stream |-> FALSE], [model |-> "llm", stream |-> TRUE],
      [model |-> "llm-private", stream |-> FALSE], [model |-> "camera", stream |-> FALSE] }

HttpRequests ==
    { [username |-> p.username, aclId |-> p.aclId, url |-> u, body |-> NoBody]
        : p \in Principals, u \in {TokenUrl, OtherUrl} }
    \cup { [username |-> p.username, aclId |-> p.aclId, url |-> ChatCompletionsUrl, body |-> b]
             : p \in Principals, b \in Bodies }

\* Math.random().toString(16).slice(2, 10): the n-th draw
HexTokens == <<"1f3a9c02", "7be4d510", "c09a11e6", "44d2b7f3", "e8015a6d">>

NoUserDatabase == [token |-> "", database |-> ""]
NoResponse == [code |-> 0, token |-> ""]

\* A handler suspended at an await.
Suspended(request, pc, userDatabase) ==
    [request |-> request, pc |-> pc, userDatabase |-> userDatabase, response |-> NoResponse]

\* response.send(...): the handler is through.
Sent(request, code, token) ==
    [request |-> request, pc |-> "done", userDatabase |-> NoUserDatabase,
     response |-> [code |-> code, token |-> token]]

\* The handler threw: no response is sent by it.
Thrown(request) == Sent(request, 500, "")

\* openDatabase(token): [...this.userDatabases.values()].find(db => db.token
\* === token); it throws when there is none.
OpenDatabase(token) ==
    LET found == { u \in DOMAIN userDatabases : userDatabases[u].token = token } IN
    IF found = {} THEN [threw |-> TRUE, database |-> ""]
    ELSE [threw |-> FALSE,
          database |-> userDatabases[CHOOSE u \in found : TRUE].database]

\* mutant: every request counts as authenticated
UnauthenticatedNever(request) == FALSE

\* if (!request.username) of onRequest
Unauthenticated(request) == request.username = NoUser

\* onOpenAIEndpointRequest after the ACL check: the device is looked up and
\* called.  A stream is handed to sendStream; a completion is awaited.
CallDevice(r, request) ==
    LET model == request.body.model IN
    IF ~IsChatCompletion(model)
    THEN [entry |-> Sent(request, 404, ""), calls |-> <<>>]
    ELSE IF request.body.stream
    THEN [entry |-> Sent(request, 200, ""),
          calls |-> <<[request |-> r, model |-> model, method |-> "streamChatCompletion"]>>]
    ELSE [entry |-> Suspended(request, "getChatCompletion", NoUserDatabase),
          calls |-> <<[request |-> r, model |-> model, method |-> "getChatCompletion"]>>]

\* onOpenAIEndpointRequest up to its first await.
OnOpenAIEndpointRequest(r, request) ==
    IF request.username = NoUser
    THEN [entry |-> Sent(request, 401, ""), calls |-> <<>>]
    ELSE IF request.aclId # ""
    THEN [entry |-> Suspended(request, "checkUserId", NoUserDatabase), calls |-> <<>>]
    ELSE CallDevice(r, request)

\* onRequest up to its first await.  A user without an entry in
\* userDatabases gets a token drawn and the handler awaits import("level").
OnRequest(request) ==
    LET r == Len(https) + 1
        openai == OnOpenAIEndpointRequest(r, request)
    IN
    /\ Len(https) < MaxRequests
    /\ IF Unauthenticated(request)
         THEN /\ https' = Append(https, Sent(request, 401, ""))
              /\ UNCHANGED <<chatCompletions, random>>
         ELSE IF request.url = ChatCompletionsUrl
         THEN /\ https' = Append(https, openai.entry)
              /\ chatCompletions' = chatCompletions \o openai.calls
              /\ UNCHANGED random
         ELSE IF request.url # TokenUrl
         THEN /\ https' = Append(https, Sent(request, 404, ""))
              /\ UNCHANGED <<chatCompletions, random>>
         ELSE IF request.username \in DOMAIN userDatabases
         THEN /\ https' = Append(https,
                     Sent(request, 200, userDatabases[request.username].token))
              /\ UNCHANGED <<chatCompletions, random>>
         ELSE /\ random' = random + 1
              /\ https' = Append(https,
                     Suspended(request, "import",
                               [token |-> HexTokens[random + 1], database |-> ""]))
              /\ UNCHANGED chatCompletions
    /\ UNCHANGED <<opts, driverVars, sessionVars, dispatchVars, userDatabases>>

\* await checkUserId(model, request.aclId) resolves: 401 when the ACL does
\* not grant the model, the device otherwise.
CheckUserIdResolves(r) ==
    LET request == https[r].request
        device == CallDevice(r, request)
    IN
    /\ https[r].pc = "checkUserId"
    /\ IF ~CheckUserId(request.body.model, request.aclId)
         THEN /\ https' = [https EXCEPT ![r] = Sent(request, 401, "")]
              /\ UNCHANGED chatCompletions
         ELSE /\ https' = [https EXCEPT ![r] = device.entry]
              /\ chatCompletions' = chatCompletions \o device.calls
    /\ UNCHANGED <<opts, driverVars, sessionVars, dispatchVars, userDatabases, random>>

\* await chatCompletion.getChatCompletion(body) resolves or rejects.
GetChatCompletionResolves(r) ==
    /\ https[r].pc = "getChatCompletion"
    /\ https' = [https EXCEPT ![r] = Sent(https[r].request, 200, "")]
    /\ UNCHANGED <<opts, driverVars, sessionVars, dispatchVars, userDatabases,
                   chatCompletions, random>>

GetChatCompletionRejects(r) ==
    /\ https[r].pc = "getChatCompletion"
    /\ https' = [https EXCEPT ![r] = Thrown(https[r].request)]
    /\ UNCHANGED <<opts, driverVars, sessionVars, dispatchVars, userDatabases,
                   chatCompletions, random>>

\* await import("level") resolves: the database is made over the level of
\* the user's name, this.userDatabases.set(request.username, userDatabase),
\* and the handler awaits level.open().
ImportResolves(r) ==
    LET request == https[r].request
        userDatabase == [https[r].userDatabase EXCEPT !.database = request.username]
    IN
    /\ https[r].pc = "import"
    /\ userDatabases' = (request.username :> userDatabase) @@ userDatabases
    /\ https' = [https EXCEPT ![r] = Suspended(request, "open", userDatabase)]
    /\ UNCHANGED <<opts, driverVars, sessionVars, dispatchVars, chatCompletions, random>>

\* level.open() resolves: the token is sent.
OpenResolves(r) ==
    /\ https[r].pc = "open"
    /\ https' = [https EXCEPT ![r] = Sent(https[r].request, 200, https[r].userDatabase.token)]
    /\ UNCHANGED <<opts, driverVars, sessionVars, dispatchVars, userDatabases,
                   chatCompletions, random>>

\* level.open() rejects: the entry is deleted if it is still this handler's,
\* and 500 is sent.
OpenRejects(r) ==
    LET request == https[r].request IN
    /\ https[r].pc = "open"
    /\ userDatabases' =
          IF /\ request.username \in DOMAIN userDatabases
             /\ userDatabases[request.username] = https[r].userDatabase
          THEN [u \in DOMAIN userDatabases \ {request.username} |-> userDatabases[u]]
          ELSE userDatabases
    /\ https' = [https EXCEPT ![r] = Sent(request, 500, "")]
    /\ UNCHANGED <<opts, driverVars, sessionVars, dispatchVars, chatCompletions, random>>

HttpInit == Constructed({ o \in TerminalOpts : ~o.functionCalls /\ ~o.image /\ ~o.systemPrompt })

HttpNext ==
    \/ \E request \in HttpRequests : OnRequest(request)
    \/ \E r \in DOMAIN https : CheckUserIdResolves(r)
    \/ \E r \in DOMAIN https : GetChatCompletionResolves(r)
    \/ \E r \in DOMAIN https : GetChatCompletionRejects(r)
    \/ \E r \in DOMAIN https : ImportResolves(r)
    \/ \E r \in DOMAIN https : OpenResolves(r)
    \/ \E r \in DOMAIN https : OpenRejects(r)

HttpSpec == HttpInit /\ [][HttpNext]_vars

\* ------------------------------------------------------------------ claims

\* The first n messages hold a tool-role message answering call id.
HasToolResult(n, id) ==
    \E q \in 1..n : messages[q].role = "tool" /\ messages[q].id = id

\* The final assistant messages (not the synthetic "Ok.") among the first n.
AssistantTurnsIn(n) ==
    { messages[p].id[1] : p \in { q \in 1..n : messages[q].role = "assistant"
                                               /\ messages[q].id[1] >= 1 } }

\* C1: in a terminal session, once the final assistant message of a turn
\* carries N >= 1 tool calls, every request sent afterwards is sent with the
\* tool-result messages of all N calls already in body.messages.
C1_AllToolResultsBeforeNextRequest ==
    opts.terminal =>
        \A r \in DOMAIN requests :
            \A t \in AssistantTurnsIn(requests[r]) :
                \A k \in 1..Len(emitted[t].calls) :
                    HasToolResult(requests[r], <<t, k>>)

\* tool-role messages of one turn before position p
ToolResultsBefore(p, turn) ==
    Cardinality({ q \in 1..(p - 1) : messages[q].role = "tool" /\ messages[q].id[1] = turn })

\* C2: the tool-role messages answering the calls c1..cN of one assistant
\* turn stand in body.messages in the order c1..cN: the k-th of them answers
\* call k.
C2_ToolMessagesInCallOrder ==
    opts.terminal =>
        \A p \in DOMAIN messages :
            messages[p].role = "tool" =>
                messages[p].id[2] = ToolResultsBefore(p, messages[p].id[1]) + 1

\* C2 witness: both results of a two-call turn are in the history.
C2_Witness ==
    /\ opts.terminal
    /\ \E p, q \in DOMAIN messages :
         /\ p < q
         /\ messages[p].role = "tool" /\ messages[q].role = "tool"
         /\ messages[p].id[1] = messages[q].id[1]
         /\ messages[p].id[2] = 1 /\ messages[q].id[2] = 2

\* C3: every request sent to the streaming backend was sent with a user or
\* tool message as the last message of body.messages.
C3_RequestsFollowUserOrTool ==
    \A r \in DOMAIN requests :
        /\ requests[r] >= 1
        /\ messages[requests[r]].role \in {"user", "tool"}

\* C3 witness: a request in flight after a cancelled stream.
C3_Witness ==
    /\ out.sentinels >= 1
    /\ wpc = "streaming"
    /\ Len(requests) >= 2

\* C4: dispatching a tool call whose name is not in the registry does not
\* throw out of handleToolCalls: no "not found" error ever leaves the turn.
C4_UnknownToolIsNotFatal ==
    out.thrown # "Tool [object Object] not found."

\* C5: an error thrown by a provider's callLLMTool is caught at the dispatch
\* boundary: it never leaves handleToolCalls.
C5_ProviderErrorIsCaught ==
    out.thrown # "provider error"

\* C6: malformed arguments never make dispatch fail: the parse error of
\* partialParse never leaves handleToolCalls.
C6_ParseFailureIsNotFatal ==
    out.thrown # "SyntaxError"

\* C7: when the terminal consumer receives a final assistant message without
\* a tool_calls field, the turn ends in that step: handleToolCalls is not
\* called, no provider is invoked and the processing flag is cleared.
C7_NoToolCallsEndsTurn ==
    [][ (opts.terminal /\ turns' = turns + 1 /\ ~Last(emitted').has_tool_calls)
          => (~processing' /\ htc' = htc /\ invoked' = invoked /\ cpc' = "next") ]_vars

\* C7 witness: such a message was received and the turn has ended.
C7_Witness ==
    /\ opts.terminal
    /\ turns >= 1
    /\ ~Last(emitted).has_tool_calls
    /\ Last(messages).role = "assistant"
    /\ accepted >= 1
    /\ ~processing
    /\ htc = 0

UserLinesQueued ==
    Cardinality({ k \in DOMAIN userMessageQueue : userMessageQueue[k] = <<UserMsg("status")>> })

\* C8: user input is serialized: at most one user-line message is pending
\* on the queue at any time.
C8_AtMostOneUserLinePending ==
    opts.terminal => UserLinesQueued <= 1

\* C9 (as a finite run refutes it): an accepted line always gets its flag
\* cleared, so the session never rests with the flag set while the driver
\* waits on an empty queue and no tool is running: there no line can be
\* accepted and nothing is left that clears the flag.
C9_NeverParkedWhileProcessing ==
    ~( /\ opts.terminal
       /\ processing
       /\ cpc = "next"
       /\ wpc = "awaitUser"
       /\ userMessageQueue = <<>> )

\* C10: after the restart notice has been written, a line the user submits is
\* accepted.
C10_RearmsAfterRestartNotice ==
    [][ (opts.terminal /\ out.notice # "" /\ nlines' = nlines + 1)
          => accepted' = accepted + 1 ]_vars

\* tool-role messages answering a call of the given turn, in a list
ToolResultsOf(list, turn) ==
    { q \in DOMAIN list : list[q].role = "tool" /\ list[q].id[1] = turn }

\* tool calls of the turns before the given one
RECURSIVE CallsBefore(_)
CallsBefore(turn) ==
    IF turn <= 1 THEN 0
    ELSE CallsBefore(turn - 1) + Len(emitted[turn - 1].calls)

\* C11: when a tool of a turn returns a content part of a type other than
\* text, image, audio or resource, handleToolCalls throws and the turn fails
\* as a whole: no tool-role message of that turn, not even of the calls that
\* had completed, is in body.messages or queued for it, no result of the turn
\* is in toolHistory, and the error is written to the output as the notice.
C11_UnsupportedContentFailsTurn ==
    (opts.terminal /\ out.thrown = "Unsupported content type in tool call response.") =>
        /\ out.notice = out.thrown
        /\ cpc = "dead"
        /\ ToolResultsOf(messages, turns) = {}
        /\ \A b \in DOMAIN userMessageQueue : ToolResultsOf(userMessageQueue[b], turns) = {}
        /\ Len(toolHistory) = CallsBefore(turns)

\* C11 witness: the second call of a turn returned the unsupported part
\* after the first call had completed.
C11_Witness ==
    /\ opts.terminal
    /\ out.thrown = "Unsupported content type in tool call response."
    /\ cur.i = 2
    /\ Len(cur.allMessages) = 1

\* C12: a tool result that is one image part gives, for a client with the
\* image capability, exactly the three messages tool, assistant "Ok.", user
\* with the image inline and no token in the metadata; without the
\* capability it gives exactly one tool message whose text quotes a chat://
\* token, and that token is in the images list of the result's metadata.
C12_ImageInlineOrToken ==
    \A k \in DOMAIN cur.allMessages :
        LET d == cur.allMessages[k]
            url == DataUrl(ImagePart.mimeType, ImagePart.data)
        IN d.callToolResult.content = <<ImagePart>> =>
            IF opts.image
            THEN /\ Len(d.messages) = 3
                 /\ d.messages[1].role = "tool" /\ d.messages[1].id = d.toolCall.id
                 /\ d.messages[2] = OkMsg
                 /\ d.messages[3].role = "user" /\ d.messages[3].media = <<url>>
                 /\ d.callToolResult.meta = <<>>
                 /\ d.minted = <<>>
            ELSE /\ Len(d.messages) = 1
                 /\ d.messages[1].role = "tool" /\ d.messages[1].id = d.toolCall.id
                 /\ \E t \in Tokens :
                      /\ Len(d.messages[1].content) = 1
                      /\ d.messages[1].content[1].token = t
                      /\ d.callToolResult.meta = <<MetaEntry("images", t, url)>>

\* C12 witness: an image result was adapted for a client without the image
\* capability and its token is in the metadata.
C12_Witness ==
    /\ ~opts.image
    /\ \E k \in DOMAIN cur.allMessages :
         /\ cur.allMessages[k].callToolResult.content = <<ImagePart>>
         /\ cur.allMessages[k].minted # <<>>

\* C13: a tool result that is one audio part gives, for a client with the
\* audio capability, the three messages tool, assistant "Ok.", user with the
\* audio inline as a data URL and mints no token; a token is minted for
\* audio only without the capability.
C13_AudioInlineWhenCapable ==
    \A k \in DOMAIN cur.allMessages :
        LET d == cur.allMessages[k]
            url == DataUrl(AudioPart.mimeType, AudioPart.data)
        IN d.callToolResult.content = <<AudioPart>> =>
            IF opts.audio
            THEN /\ Len(d.messages) = 3
                 /\ d.messages[1].role = "tool"
                 /\ d.messages[2] = OkMsg
                 /\ d.messages[3].role = "user" /\ d.messages[3].media = <<url>>
                 /\ d.minted = <<>>
            ELSE d.minted # <<>>

\* the entries of toolHistory in scan order
HistoryEntries == ScanOrder(toolHistory, 1)

\* no entry after the k-th carries its token
Unshadowed(k) ==
    \A j \in DOMAIN HistoryEntries :
        j > k => HistoryEntries[j].token # HistoryEntries[k].token

\* C14 (as stated): every token minted for an image result that is in
\* toolHistory resolves, by findChatBlob against that history, to the data
\* URL stored for the image.
C14_ImageTokenRoundTrip ==
    \A k \in DOMAIN HistoryEntries :
        IsImage(HistoryEntries[k]) =>
            FindChatBlob(HistoryEntries[k].token, toolHistory, "")
                = [threw |-> FALSE, value |-> JsonString(HistoryEntries[k].src)]

\* C14 (amended): a token minted for an image result that is in toolHistory
\* resolves to the data URL stored for the image, unchanged, as long as no
\* later entry of the scan was recorded under the same token.
C14_ImageTokenRoundTripUnlessShadowed ==
    \A k \in DOMAIN HistoryEntries :
        (IsImage(HistoryEntries[k]) /\ Unshadowed(k)) =>
            FindChatBlob(HistoryEntries[k].token, toolHistory, "")
                = [threw |-> FALSE,
                   value |-> JsonString(DataUrl(ImagePart.mimeType, ImagePart.data))]

\* C14 witness: a provider was handed the data URL of an image in place of
\* the chat:// URL of its token.
C14_Witness ==
    /\ \E k \in DOMAIN HistoryEntries : IsImage(HistoryEntries[k]) /\ Unshadowed(k)
    /\ \E i \in DOMAIN invoked :
         /\ "url" \in DOMAIN invoked[i].arguments
         /\ invoked[i].arguments["url"]
              = JsonString(DataUrl(ImagePart.mimeType, ImagePart.data))

\* the entry stores content of mime type image/png
StoresPng(e) ==
    IF IsResource(e) THEN e.mimeType = "image/png"
    ELSE e.src = DataUrl("image/png", ImagePart.data)

\* a call of "tool" whose json parameter, which requires application/json,
\* names the token
JsonCallOf(token) ==
    ToolCall(NoCall, "function", "tool", Stringify("json" :> JsonString(ChatUrl(token, ""))))

\* C15: resolving a token whose entry stores image/png for a parameter that
\* requires application/json fails with the mime type error and leaves the
\* argument as it was, whichever of the lists images, audio and resources
\* holds the entry.
C15_MimeMismatchFails ==
    \A k \in DOMAIN HistoryEntries :
        LET e == HistoryEntries[k] IN
        (StoresPng(e) /\ Unshadowed(k) /\ e.token \in Tokens) =>
            /\ FindChatBlob(e.token, toolHistory, "application/json").threw
            /\ RewriteArguments(JsonCallOf(e.token), FindTool("tool"), toolHistory)
                 = NoRewrite(JsonCallOf(e.token).arguments)

\* the step is one pass of the dispatch loop of handleToolCalls
DispatchStep ==
    /\ cpc = "dispatch"
    /\ cur.i <= Len(CurrentCalls)
    /\ cpc' # cpc

\* the lookup of the call's json argument ends in the mime type error
MismatchOnDispatch ==
    LET parsed == PartialParse(CurrentCalls[cur.i].arguments) IN
    /\ parsed.ok
    /\ "json" \in DOMAIN parsed.value
    /\ StartsWithChat(parsed.value["json"].value)
    /\ FindChatBlob(UrlHost(parsed.value["json"].value), toolHistory, "application/json").threw

\* C16: a mime type mismatch raised while an argument of a tool call is
\* resolved is fatal for that call: the provider is not invoked for it with
\* the chat:// argument left unresolved.
C16_MimeMismatchStopsCall ==
    [][ (DispatchStep /\ MismatchOnDispatch) => invoked' = invoked ]_vars

\* the places in the scan of the entries recorded under the token
Matching(token) ==
    { k \in DOMAIN HistoryEntries : HistoryEntries[k].token = token }

\* what an entry holds: the src, or the text, parsed when it is JSON
HeldBy(e) ==
    IF ~IsResource(e) THEN JsonString(e.src)
    ELSE IF e.mimeType = "application/json" /\ JsonParse(e.text).ok THEN JsonObject(e.text)
    ELSE IF e.mimeType = "application/json" /\ e.text \in {"0", "1"} THEN JsonNumber(e.text)
    ELSE JsonString(e.text)

\* C17: findChatBlob scans the whole history in order and does not stop at
\* the first hit: whenever it returns, it returns what the last entry
\* recorded under the token holds, and undefined when there is none.
C17_LastMatchWins ==
    \A t \in Tokens : \A required \in {"", "application/json", "image/png"} :
        LET found == FindChatBlob(t, toolHistory, required) IN
        ~found.threw =>
            found.value
                = IF Matching(t) = {} THEN Undefined
                  ELSE HeldBy(HistoryEntries[CHOOSE k \in Matching(t) :
                                                \A j \in Matching(t) : j <= k])

\* C17 witness: two entries that hold different values are recorded under
\* one token.
C17_Witness ==
    \E j, k \in DOMAIN HistoryEntries :
        /\ j < k
        /\ HistoryEntries[j].token = HistoryEntries[k].token
        /\ HistoryEntries[k].token \in Tokens
        /\ HeldBy(HistoryEntries[j]) # HeldBy(HistoryEntries[k])

\* the resource part of a result that is one resource
ResourceOf(d) == d.callToolResult.content[1]

\* the argument the mutable hint of the k-th call's resource names was a
\* chat:// URL and the provider got another value in its place
ResolvedFromChat(k) ==
    LET d == cur.allMessages[k]
        p == ResourceOf(d).mutable
        before == PartialParse(CurrentCalls[k].arguments)
        after == PartialParse(d.toolCall.arguments)
    IN /\ p \in {"url", "json"}
       /\ before.ok
       /\ p \in DOMAIN before.value
       /\ before.value[p].type = "string"
       /\ StartsWithChat(before.value[p].value)
       /\ after.value[p] # before.value[p]

\* C18: a resource whose mutable hint names a parameter that was resolved
\* from chat://T in this call is recorded under T, the token the lookup
\* used; every other resource is recorded under a token minted for it.
C18_MutableResourceKeepsToken ==
    \A k \in DOMAIN cur.allMessages :
        LET d == cur.allMessages[k] IN
        (Len(d.callToolResult.content) = 1 /\ ResourceOf(d).type = "resource") =>
            IF ResolvedFromChat(k)
            THEN /\ d.minted = <<>>
                 /\ d.callToolResult.meta =
                      <<ResourceEntry(
                          UrlHost(PartialParse(CurrentCalls[k].arguments)
                                     .value[ResourceOf(d).mutable].value),
                          ResourceOf(d).data, ResourceOf(d).mimeType)>>
            ELSE \E t \in Tokens :
                   /\ d.minted = <<t>>
                   /\ d.callToolResult.meta =
                        <<ResourceEntry(t, ResourceOf(d).data, ResourceOf(d).mimeType)>>

\* the final message of the turn was yielded to the caller
Yielded(turn) ==
    ~(turn = turns /\ out.thrown = "Custom tool calls are not supported.")

\* C19: a tool call of a final assistant message whose arguments string is
\* empty carries "{}" once the message is yielded: body.messages holds "{}"
\* for it and the provider invoked for it gets the empty object.
C19_EmptyArgumentsNormalized ==
    /\ \A p \in DOMAIN messages :
         (messages[p].role = "assistant" /\ messages[p].id[1] >= 1
            /\ Yielded(messages[p].id[1])) =>
             \A k \in DOMAIN messages[p].tool_calls :
                 messages[p].tool_calls[k].arguments # ""
    /\ \A i \in DOMAIN invoked :
         emitted[invoked[i].id[1]].calls[invoked[i].id[2]].arguments = "" =>
             invoked[i].arguments = <<>>
    /\ \A t \in 1..turns :
         (opts.terminal /\ out.thrown = "SyntaxError" /\ t = turns /\ cur.i >= 1
            /\ cur.i <= Len(emitted[t].calls)) =>
             emitted[t].calls[cur.i].arguments # ""

\* C19 witness: a provider was invoked for a call that the backend sent
\* with an empty arguments string.
C19_Witness ==
    \E i \in DOMAIN invoked :
        emitted[invoked[i].id[1]].calls[invoked[i].id[2]].arguments = ""

\* the providers, by place, that declare a tool of the name
Declaring(name) ==
    { k \in DOMAIN opts.llmTools :
        \E j \in DOMAIN opts.llmTools[k].names :
            NoDashName(opts.llmTools[k].names[j]) = name }

LaterProvider(name) ==
    opts.llmTools[CHOOSE k \in Declaring(name) : \A j \in Declaring(name) : j <= k].id

\* the registry lists the name once, with the later provider's descriptor
\* and handler
RetainsLater(name) ==
    LET tools == PrepareTools(opts.llmTools) IN
    /\ Cardinality({ k \in DOMAIN tools.tools : tools.tools[k].name = name }) = 1
    /\ FindTool(name).declaredBy = LaterProvider(name)
    /\ tools.map[name] = LaterProvider(name)

\* the step hands the call to the later provider's handler
InvokesLater(name) ==
    /\ out' = out
    /\ Len(invoked') = Len(invoked) + 1
    /\ Last(invoked').llmTools = LaterProvider(name)

\* C20: when two providers declare a tool of the same name, the
\* registry lists the name once and a call of the tool invokes the handler of
\* the later provider, whatever the name, get-time included.
C20_LaterProviderInvoked ==
    [][ (DispatchStep /\ Cardinality(Declaring(CurrentCalls[cur.i].name)) >= 2) =>
            /\ RetainsLater(CurrentCalls[cur.i].name)
            /\ InvokesLater(CurrentCalls[cur.i].name) ]_vars

\* the providers of the session whose listing succeeded
Listed == { k \in DOMAIN opts.llmTools : ~opts.llmTools[k].rejects }

\* the names, as registered, that the providers whose listing succeeded declare
ListedNames ==
    UNION { { NoDashName(opts.llmTools[k].names[j]) : j \in DOMAIN opts.llmTools[k].names }
            : k \in Listed }

\* C21: prepareTools does not fail when the listing of a provider fails:
\* the registry holds exactly the tools of the providers whose listing
\* succeeded, each mapped to such a provider, and a tool that only a failing
\* provider declares is absent, so that calling it finds no tool and no
\* handler of a failing provider is ever invoked.
C21_FailingProviderIsDropped ==
    LET tools == PrepareTools(opts.llmTools) IN
    /\ DOMAIN tools.map = ListedNames
    /\ { tools.tools[k].name : k \in DOMAIN tools.tools } = ListedNames
    /\ \A n \in DOMAIN tools.map :
         \E k \in Listed : tools.map[n] = opts.llmTools[k].id
    /\ \A i \in DOMAIN invoked :
         \E k \in Listed : invoked[i].llmTools = opts.llmTools[k].id

\* C21 witness: in a session with a provider whose listing failed, a tool
\* of the other provider was invoked.
C21_Witness ==
    /\ opts.llmTools = <<BrokenTools, ScryptedTools>>
    /\ invoked # <<>>

\* handleToolCalls has returned for the turn: its results are in toolHistory
Handled(turn) ==
    /\ Len(emitted[turn].calls) >= 1
    /\ Len(toolHistory) >= CallsBefore(turn + 1)

\* C22: in legacy function-call mode, once handleToolCalls has processed
\* an assistant message with tool calls, the message's function_call holds
\* the name and the arguments of the first tool call of the turn and its
\* tool_calls field is gone.
C22_LegacyMirrorsFirstCall ==
    opts.functionCalls =>
        \A p \in DOMAIN messages :
            LET m == messages[p]
                turn == m.id[1]
            IN (m.role = "assistant" /\ turn >= 1 /\ Handled(turn)) =>
                /\ ~m.has_tool_calls
                /\ m.tool_calls = <<>>
                /\ m.function_call
                     = FunctionCall(emitted[turn].calls[1].name,
                                    NormalizeToolCalls(emitted[turn].calls, 1).calls[1].arguments)

\* the calls of a turn as the wrapper yielded them
YieldedCalls(turn) == NormalizeToolCalls(emitted[turn].calls, 1).calls

\* toolHistory as it was while the calls of the turn were dispatched
HistoryBefore(turn) == SubSeq(toolHistory, 1, CallsBefore(turn))

\* what the provider is called with for a call, from the message, the
\* history and the registry alone
InvocationOf(call, history) ==
    LET tools == PrepareTools(opts.llmTools)
        rewrite == RewriteArguments(call, FindTool(call.name), history)
    IN [id |-> call.id, llmTools |-> tools.map[call.name],
        name |-> tools.originalNames[call.name],
        arguments |-> PartialParse(rewrite.arguments).value]

\* the result messages of a call, from the message, the history, the
\* capabilities and what the tool answered alone
IsResultOf(d, call, history) ==
    LET tool == FindTool(call.name)
        rewrite == RewriteArguments(call, tool, history)
        content == d.callToolResult.content
    IN \E toks \in TokenChoices(content, Capabilities, tool, rewrite.chatUrls) :
         d = ToolCallData([call EXCEPT !.arguments = rewrite.arguments], tool,
                          rewrite.chatUrls, [content |-> content, meta |-> <<>>],
                          Capabilities, toks)

\* C23: legacy function-call mode does not change dispatch: with the mode
\* on or off, the tools invoked, their arguments, their order and the
\* result messages are those that follow from the assistant message, the
\* tool history, the capabilities and the tools' answers alone.
C23_LegacyModeKeepsDispatch ==
    /\ \A i \in DOMAIN invoked :
         LET turn == invoked[i].id[1]
             k == invoked[i].id[2]
         IN /\ k \in DOMAIN YieldedCalls(turn)
            /\ YieldedCalls(turn)[k].name \in RegisteredTools
            /\ invoked[i] = InvocationOf(YieldedCalls(turn)[k], HistoryBefore(turn))
    /\ \A i, j \in DOMAIN invoked :
         i < j => \/ invoked[i].id[1] < invoked[j].id[1]
                  \/ /\ invoked[i].id[1] = invoked[j].id[1]
                     /\ invoked[i].id[2] < invoked[j].id[2]
    /\ \A k \in DOMAIN cur.allMessages :
         IsResultOf(cur.allMessages[k], YieldedCalls(turns)[k], HistoryBefore(turns))

\* C23 witness: in legacy mode the second call of a turn, which differs
\* from the first, was invoked after function_call had been set and its
\* result was built.
C23_Witness ==
    /\ opts.functionCalls
    /\ Len(cur.allMessages) = 2
    /\ Len(invoked) = 2
    /\ invoked[1].arguments # invoked[2].arguments

\* the callback has asked to stop in the stream that is being read
CancelRequested == wpc = "streaming" /\ done

\* C24: once the callback has resolved to false during a stream, nothing
\* more of that stream is appended to body.messages, the stream is left,
\* unless by an error, only by yielding the sentinel, and no request is sent
\* before userMessages has supplied the replacement messages.
C24_CancelDiscardsAndWaits ==
    [][ /\ CancelRequested =>
            /\ messages' = messages
            /\ requests' = requests
            /\ (wpc' # "streaming" /\ out'.thrown = out.thrown) =>
                   /\ out'.sentinels = out.sentinels + 1
                   /\ wpc' = IF opts.userMessages THEN "awaitReplacement" ELSE "returned"
        /\ wpc = "awaitReplacement" =>
            /\ requests' = requests
            /\ wpc' = "ensure" => (userMessageQueue # <<>> /\
                                     messages' = messages \o Head(userMessageQueue))
      ]_vars

\* C25: when the last message is not from the user or a tool (or there is
\* no message) and no userMessages source was given, the wrapper throws
\* 'Last message must not be from the assistant.' and sends no request.
C25_NoSourceNoRequest ==
    [][ (/\ ~opts.userMessages
         /\ wpc = "ensure"
         /\ (messages = <<>> \/ Last(messages).role \notin {"user", "tool"}))
        => /\ wpc' = "threw"
           /\ out'.thrown = "Last message must not be from the assistant."
           /\ requests = <<>>
           /\ requests' = requests
           /\ messages' = messages ]_vars

\* C25 witness: the wrapper threw on a body that ends with an assistant
\* message, with no request sent.
C25_Witness ==
    /\ ~opts.userMessages
    /\ out.thrown = "Last message must not be from the assistant."
    /\ messages # <<>>
    /\ Last(messages).role = "assistant"
    /\ requests = <<>>

\* C26: while an invocation of a tool is in flight the driver does not
\* proceed: the wrapper stays suspended at its yield, no request is sent and
\* no other tool call is started; the call in flight is the one that ends
\* next, by its result or by its error.
C26_ToolRunsToCompletion ==
    [][ cpc = "toolInFlight" =>
            /\ wpc = "yielded"
            /\ requests' = requests
            /\ invoked' = invoked
            /\ Last(invoked).id = cur.tc.id
            /\ cpc' = "toolInFlight" \/ cpc' = "dead" \/
                 (cpc' = "dispatch" /\ cur'.i = cur.i + 1 /\
                  Last(cur'.allMessages).toolCall.id = cur.tc.id) ]_vars

\* C26 witness: the second call of a turn is in flight after the first has
\* completed.
C26_Witness ==
    /\ cpc = "toolInFlight"
    /\ cur.i = 2
    /\ Len(cur.allMessages) = 1
    /\ Len(invoked) = 2

\* C27: the rewriting of chat:// arguments does not reach the stored
\* conversation: every tool call of every assistant message in
\* body.messages has, during and after handleToolCalls, the arguments string
\* the wrapper yielded it with.
C27_RewriteStaysLocal ==
    \A p \in DOMAIN messages :
        LET m == messages[p]
            turn == m.id[1]
        IN (m.role = "assistant" /\ turn >= 1) =>
            \A k \in DOMAIN m.tool_calls : m.tool_calls[k] = YieldedCalls(turn)[k]

\* C27 witness: handleToolCalls has returned for a turn in which a provider
\* was handed the data URL of an image in place of the chat:// URL.
C27_Witness ==
    \E i \in DOMAIN invoked :
        /\ Handled(invoked[i].id[1])
        /\ "url" \in DOMAIN invoked[i].arguments
        /\ invoked[i].arguments["url"]
             = JsonString(DataUrl(ImagePart.mimeType, ImagePart.data))
        /\ \E p \in DOMAIN messages :
             /\ messages[p].role = "assistant"
             /\ messages[p].id[1] = invoked[i].id[1]
             /\ messages[p].tool_calls # <<>>

\* the lines of the tool-role message built for a call
SummaryOf(d) == d.messages[1].content

\* C28: the content of the tool-role message built for a call holds each
\* line that the parts of the result contribute at most once.
C28_SummaryIsDeduplicated ==
    \A k \in DOMAIN cur.allMessages :
        \A i, j \in DOMAIN SummaryOf(cur.allMessages[k]) :
            SummaryOf(cur.allMessages[k])[i] = SummaryOf(cur.allMessages[k])[j] => i = j

\* the url argument of the call about to be dispatched is a chat:// URL
\* whose token has an entry in toolHistory
UrlArgumentFound ==
    LET parsed == PartialParse(CurrentCalls[cur.i].arguments) IN
    /\ CurrentCalls[cur.i].name = "tool"
    /\ parsed.ok
    /\ "url" \in DOMAIN parsed.value
    /\ StartsWithChat(parsed.value["url"].value)
    /\ Matching(UrlHost(parsed.value["url"].value)) # {}

\* C30: whenever the token of a uri-format chat:// argument has an entry in
\* the history, the provider is invoked with the value the resolver returns
\* in place of the URL, whatever that value is.
C30_FoundValueIsSubstituted ==
    [][ (DispatchStep /\ UrlArgumentFound) =>
            /\ Len(invoked') = Len(invoked) + 1
            /\ Last(invoked').arguments["url"]
                 = FindChatBlob(UrlHost(PartialParse(CurrentCalls[cur.i].arguments)
                                           .value["url"].value),
                                toolHistory, "").value ]_vars

\* C29: a final assistant message whose tool_calls field is present but
\* empty ends the turn: when the consumer is done with it, the processing
\* flag is cleared, so that the next user line is accepted.
C29_EmptyToolCallsEndsTurn ==
    [][ (/\ opts.terminal
         /\ cpc = "dispatch"
         /\ CurrentCalls = <<>>
         /\ emitted[turns].has_tool_calls
         /\ cpc' = "next")
        => ~processing' ]_vars

\* the call, as <<turn, index>>, whose result is the h-th of toolHistory
RECURSIVE CallAt(_, _)
CallAt(h, turn) ==
    IF h <= Len(emitted[turn].calls) THEN <<turn, h>>
    ELSE CallAt(h - Len(emitted[turn].calls), turn + 1)

\* the h-th result of toolHistory is a resource that replaces the blob its
\* call was handed: the mutable hint names an argument that was a chat://
\* URL and that the provider received resolved
Replaces(h) ==
    LET id == CallAt(h, 1)
        part == toolHistory[h].content[1]
        sent == PartialParse(YieldedCalls(id[1])[id[2]].arguments)
    IN /\ Len(toolHistory[h].content) = 1
       /\ part.type = "resource"
       /\ part.mutable \in {"url", "json"}
       /\ sent.ok
       /\ part.mutable \in DOMAIN sent.value
       /\ sent.value[part.mutable].type = "string"
       /\ StartsWithChat(sent.value[part.mutable].value)
       /\ \E i \in DOMAIN invoked :
            /\ invoked[i].id = id
            /\ invoked[i].arguments[part.mutable] # sent.value[part.mutable]

\* the token the replaced blob was resolved from
ReplacedToken(h) ==
    LET id == CallAt(h, 1) IN
    UrlHost(PartialParse(YieldedCalls(id[1])[id[2]].arguments)
               .value[toolHistory[h].content[1].mutable].value)

\* C31: once the result of a call that replaced a mutable resource resolved
\* from chat://T is in toolHistory, and as long as it is the latest result,
\* resolving T gives the new content, be it asked for without a mime type
\* or with the mime type of the new content.
C31_StableHandleUnderMutation ==
    (toolHistory # <<>> /\ Replaces(Len(toolHistory))) =>
        LET part == Last(toolHistory).content[1]
            new == ResourceEntry(ReplacedToken(Len(toolHistory)), part.data, part.mimeType)
        IN \A required \in {"", part.mimeType} :
             FindChatBlob(ReplacedToken(Len(toolHistory)), toolHistory, required)
                = [threw |-> FALSE, value |-> HeldBy(new)]

\* the parameters a tool declares with type string and format uri
UriParams(tool) ==
    { tool.properties[j].param :
        j \in { x \in DOMAIN tool.properties :
                  /\ tool.properties[x].type = "string"
                  /\ tool.properties[x].format = "uri" } }

\* C32: whatever a provider was invoked with, every argument of the call
\* under a key that the tool does not declare as a string of format uri is
\* the argument the assistant sent, also when it is a chat:// URL of a
\* token the tool history holds.
C32_OnlyUriParametersRewritten ==
    \A i \in DOMAIN invoked :
        LET id == invoked[i].id
            call == YieldedCalls(id[1])[id[2]]
            sent == PartialParse(call.arguments)
        IN sent.ok =>
            \A key \in DOMAIN sent.value \ UriParams(FindTool(call.name)) :
                /\ key \in DOMAIN invoked[i].arguments
                /\ invoked[i].arguments[key] = sent.value[key]

\* C32 witness: a provider was invoked with a chat:// URL under the plain
\* string parameter or under an undeclared key, while the history of the
\* turn held a blob under the token of the URL.
C32_Witness ==
    \E key \in {"q", "a"} :
        \E i \in DOMAIN invoked :
            /\ key \in DOMAIN invoked[i].arguments
            /\ invoked[i].arguments[key] = JsonString(ChatUrl("apple-bread", ""))
            /\ Truthy(FindChatBlob("apple-bread", HistoryBefore(invoked[i].id[1]), "").value)

\* C33: in a terminal session, while the processing flag is clear (no line
\* has been accepted since the last turn that ended without tool calls),
\* no request is sent to the backend; a tool-result batch left over from an
\* earlier turn triggers none.
C33_NoRequestWhileIdle ==
    [][ (opts.terminal /\ ~processing) => requests' = requests ]_vars

\* C34: when call i of a turn is dispatched, the tool history its chat://
\* arguments are resolved against holds the results of every call of the
\* earlier turns and of the calls 1..i-1 of the same turn.
C34_EarlierCallsOfTurnVisible ==
    [][ DispatchStep =>
          Len(toolHistory) = CallsBefore(messages[cur.pos].id[1]) + (cur.i - 1) ]_vars

\* the messages built for the k-th call handled so far in handleToolCalls
BatchOf(k) == cur.allMessages[k].messages

\* C35: every batch handleToolCalls has built starts with the tool-role
\* message of its call and holds no other tool-role message, every "Ok."
\* assistant message in it is directly followed by a user message, and its
\* last message is a tool or a user message.
C35_BatchShape ==
    \A k \in DOMAIN cur.allMessages :
        LET b == BatchOf(k) IN
        /\ b # <<>>
        /\ b[1].role = "tool"
        /\ b[1].id = cur.allMessages[k].toolCall.id
        /\ \A j \in 2..Len(b) : b[j].role # "tool"
        /\ \A j \in DOMAIN b :
              b[j] = OkMsg => (j < Len(b) /\ b[j + 1].role = "user")
        /\ Last(b).role \in {"tool", "user"}

\* C35 witness: a batch with two "Ok." messages, one for an audio part and
\* one for an image part, and in the same pass a batch of a single tool
\* message.
C35_Witness ==
    /\ \E k \in DOMAIN cur.allMessages :
          /\ Len(BatchOf(k)) = 5
          /\ BatchOf(k)[2] = OkMsg
          /\ BatchOf(k)[4] = OkMsg
          /\ cur.allMessages[k].callToolResult.content = <<AudioPart, ImagePart>>
    /\ \E k \in DOMAIN cur.allMessages : Len(BatchOf(k)) = 1

\* C36: a pass of ensureLastMessageIsUserOrToolMessage returns (the request
\* is sent), throws, or suspends in userMessages.next(); it never goes round
\* the loop without having suspended.
C36_EnsureMakesProgress ==
    [][ wpc = "ensure" =>
          wpc' \in {"ensure", "streaming", "awaitUser", "threw", "closed"} ]_vars

\* C37: in a stream in which the callback has resolved to false for a
\* delta, the final assistant message of the stream has not been appended
\* to body.messages, however the resolution of the callback's promise and
\* the arrival of the messages of the stream interleave.
C37_CancelledStreamAppendsNothing ==
    CancelRequested => ~stream.finalSeen

\* the requests of the token endpoint that were answered with a token
TokenResponses ==
    { r \in DOMAIN https : https[r].pc = "done" /\ https[r].response.token # "" }

\* C38: every token the token endpoint has returned opens the database of
\* the user it was returned to, and all the tokens returned to one user are
\* the same, however the handlers of the requests interleave.
C38_ReturnedTokensStayUsable ==
    /\ \A r \in TokenResponses :
          OpenDatabase(https[r].response.token)
             = [threw |-> FALSE, database |-> https[r].request.username]
    /\ \A r1, r2 \in TokenResponses :
          https[r1].request.username = https[r2].request.username
             => https[r1].response.token = https[r2].response.token

\* the requests whose user has an ACL that does not grant the model asked for
Denied(request) ==
    /\ request.url = ChatCompletionsUrl
    /\ request.username # NoUser
    /\ request.aclId # ""
    /\ ~CheckUserId(request.body.model, request.aclId)

\* C39: a request without a username is answered 401 in the step in which
\* it arrives and that step draws no token, makes no entry of userDatabases
\* and calls no device; whenever a device is called, it is for a request
\* with a username whose ACL, if it has one, grants the model; a chat
\* completion request of a user whose ACL does not grant the model waits
\* for the ACL check only and is then answered 401.
C39_UnauthenticatedHasNoEffect ==
    [][ /\ (Len(https') = Len(https) + 1 /\ Last(https').request.username = NoUser) =>
              /\ Last(https') = Sent(Last(https').request, 401, "")
              /\ userDatabases' = userDatabases
              /\ random' = random
              /\ chatCompletions' = chatCompletions
        /\ \A c \in DOMAIN chatCompletions' \ DOMAIN chatCompletions :
              LET request == https'[chatCompletions'[c].request].request IN
              /\ request.username # NoUser
              /\ ~Denied(request)
        /\ \A r \in DOMAIN https' :
              Denied(https'[r].request) =>
                  /\ https'[r].pc \in {"checkUserId", "done"}
                  /\ https'[r].pc = "done" => https'[r] = Sent(https'[r].request, 401, "")
      ]_vars

\* C39 witness: a request without a username and a chat completion request
\* that the ACL of its user does not grant have both been answered, and a
\* device has been called for a third request.
C39_Witness ==
    /\ \E r \in DOMAIN https :
          /\ https[r].request.username = NoUser
          /\ https[r].request.url = TokenUrl
          /\ https[r].pc = "done"
    /\ \E r \in DOMAIN https : Denied(https[r].request) /\ https[r].pc = "done"
    /\ chatCompletions # <<>>

====
